---- MODULE Spec2Model ----
(***************************************************************************)
(* The session registry of ralph-tui (src/unnamed/part_000): one JSON file *)
(* ~/.config/ralph-tui/sessions.json, read and rewritten whole by each     *)
(* operation.  Every operation is an async function; the model takes one   *)
(* step per await (access, readFile, the liveness predicate, mkdir,        *)
(* writeFile) and runs the synchronous code between two awaits inside the  *)
(* step that resumes it.  Two callers (concurrent tasks or processes) run  *)
(* operations with no lock between them.                                   *)
(*                                                                         *)
(* The text of the file is modelled by the JSON value it parses to, plus   *)
(* the kinds of file that have no JSON value (absent, unreadable, not      *)
(* JSON).  An object's own string keys are kept in insertion order, as     *)
(* Object.entries / Object.values / JSON.stringify enumerate them, so the  *)
(* sessions map is a sequence of <key, value> pairs with distinct keys.    *)
(* ISO timestamps are modelled by the clock reading they encode.           *)
(***************************************************************************)
EXTENDS Integers, Sequences, FiniteSets, TLC

\* ------------------------------------------------------------------ bounds
MaxOps == 2      \* operations started in one behaviour of interleaved callers
MaxSeqOps == 3   \* operations started in one behaviour of callers taking turns
MaxClock == 3    \* last reading of the wall clock (the first is 2)

Procs == {"p1", "p2"}
\* The callers run the same code: let p1 be the one that calls first.
FirstCaller == "p1"

\* ------------------------------------------------------------ data model
SessionStatus == {"running", "paused", "interrupted", "completed", "failed"}

Ids == {"a", "ab", "b"}
Cwds == {"/x", "/y"}

Entry(id, cwd, st, started, updated, agent, tracker, epic, prd, sb) ==
    [sessionId |-> id, cwd |-> cwd, status |-> st, startedAt |-> started,
     updatedAt |-> updated, agentPlugin |-> agent, trackerPlugin |-> tracker,
     epicId |-> epic, prdPath |-> prd, sandbox |-> sb]

\* "none" stands for an optional field that is not set.
EntryA1 == Entry("a", "/x", "running", 0, 0, "claude", "beads", "epic-1", "none", "none")
EntryA2 == Entry("a", "/y", "completed", 1, 1, "opencode", "json", "none", "prd.json", "true")
EntryAB == Entry("ab", "/x", "paused", 0, 0, "claude", "json", "none", "prd.json", "false")
EntryB == Entry("b", "/y", "failed", 0, 1, "opencode", "beads", "epic-2", "none", "none")

\* The entries callers pass to registerSession.
RegisterInputs == {EntryA1, EntryA2, EntryAB}
\* The session IDs callers pass to updateRegistryStatus and unregisterSession.
IdInputs == {"a", "b"}
\* The statuses callers pass to updateRegistryStatus.
StatusInputs == {"interrupted"}
\* The liveness predicates callers pass to cleanupStaleRegistryEntries.
AllAlive == [c \in Cwds |-> TRUE]
DeadAt(cwd) == [c \in Cwds |-> c # cwd]
Predicates == {AllAlive} \cup {DeadAt(c) : c \in Cwds}
\* The working directories callers pass to getSessionByCwd.
CwdInputs == Cwds \cup {"/z"}
\* The prefixes callers pass to findSessionsByPrefix.
PrefixInputs == {"", "a", "ab", "A", "abc"}

Pair(k, v) == [key |-> k, val |-> v]

SessionRegistry(v, sk, s) == [version |-> v, sessKind |-> sk, sessions |-> s]
EmptyRegistry == SessionRegistry("num1", "object", <<>>)

\* The file: kind says whether it exists, can be read and is JSON; for JSON
\* text, top is the kind of the top-level value, version the value of its
\* version property ("num1" is the number 1, "num2" the number 2, "str1" the
\* string "1"), sessKind the kind of its sessions property.
FileOf(kind, top, doc) ==
    [kind |-> kind, top |-> top, version |-> doc.version,
     sessKind |-> doc.sessKind, sessions |-> doc.sessions]
NoDoc == SessionRegistry("missing", "missing", <<>>)
AbsentFile == FileOf("absent", "none", NoDoc)
UnreadableFile == FileOf("unreadable", "none", NoDoc)
GarbageFile == FileOf("garbage", "none", NoDoc)
TruncatedFile == FileOf("truncated", "none", NoDoc)
JsonFile(doc) == FileOf("json", "object", doc)

Keys(s) == {s[i].key : i \in 1..Len(s)}
HasKey(s, id) == \E i \in 1..Len(s) : s[i].key = id
GetKey(s, id) == s[CHOOSE i \in 1..Len(s) : s[i].key = id].val

\* ---------------------------------------------------------------- Store I/O
Ok(doc) == [threw |-> FALSE, doc |-> doc]
Threw == [threw |-> TRUE, doc |-> NoDoc]

\* readFile(registryPath, 'utf-8'): rejects when the file cannot be read.
ReadFile(f) == IF f.kind \in {"absent", "unreadable"} THEN Threw ELSE Ok(f)

\* JSON.parse(content): throws on text that is not JSON.
JsonParse(f) == IF f.kind # "json" THEN Threw ELSE Ok(f)

\* typeof x for the kinds of JSON value: null and arrays are "object".
TypeOf(kind) ==
    CASE kind \in {"object", "null", "array"} -> "object"
      [] kind = "string" -> "string"
      [] kind = "number" -> "number"
      [] OTHER -> "undefined"

\* Lines 99-104: reading parsed.version of a null top-level value throws; of a
\* number it is undefined.
Validate(parsed) ==
    IF parsed.top = "null" THEN Threw
    ELSE IF parsed.version # "num1" \/ TypeOf(parsed.sessKind) # "object"
         THEN Ok(EmptyRegistry)
         ELSE Ok(SessionRegistry(parsed.version, parsed.sessKind, parsed.sessions))

\* The body of loadRegistry's try block after access() resolved.
ReadParseValidate(f) ==
    IF ReadFile(f).threw THEN Threw
    ELSE IF JsonParse(ReadFile(f).doc).threw THEN Threw
    ELSE Validate(JsonParse(ReadFile(f).doc).doc)

\* A loadRegistry whose failures escape (no catch clause).
CatchNothing(r) == r

\* loadRegistry's catch clause.
Catch(r) == IF r.threw THEN Ok(EmptyRegistry) ELSE r

\* A stringify given a list of property names that leaves sandbox out:
\* the entries are written without it.
StringifyWithoutSandbox(reg) ==
    JsonFile([reg EXCEPT !.sessions =
                 [i \in 1..Len(@) |-> Pair(@[i].key, [@[i].val EXCEPT !.sandbox = "none"])]])

\* JSON.stringify(registry, null, 2) as the file it leaves: the named
\* properties of an array are not serialised.
Stringify(reg) ==
    JsonFile(IF reg.sessKind = "array"
             THEN SessionRegistry(reg.version, "array", <<>>)
             ELSE reg)

\* A save that merges: entries of the file that the registry being saved does
\* not hold are kept.
SaveMerging(f, registry) ==
    IF f.kind = "json" /\ f.sessKind = "object"
    THEN JsonFile([registry EXCEPT !.sessions =
                      @ \o SelectSeq(f.sessions, LAMBDA x : ~HasKey(registry.sessions, x.key))])
    ELSE Stringify(registry)

\* saveRegistry, line 116: the file writeFile leaves where f was: the
\* serialised registry, whatever f held.
SaveRegistry(f, registry) == Stringify(registry)

\* ------------------------------------------------- the synchronous sections
\* An assignment that deletes the key first: a key that was there moves to
\* the end of the enumeration.
SetKeyMovingLast(s, id, e) == Append(SelectSeq(s, LAMBDA p : p.key # id), Pair(id, e))

\* registry.sessions[id] = entry: an existing key keeps its place, a new one
\* is added last.
SetKey(s, id, e) ==
    IF HasKey(s, id)
    THEN [i \in 1..Len(s) |-> IF s[i].key = id THEN Pair(id, e) ELSE s[i]]
    ELSE Append(s, Pair(id, e))

\* A delete by position, splice(indexOf(id), 1): with no such key, indexOf is
\* -1 and the last entry goes.
DeleteBySplice(s, id) ==
    IF HasKey(s, id) THEN SelectSeq(s, LAMBDA p : p.key # id)
    ELSE IF s = <<>> THEN s ELSE SubSeq(s, 1, Len(s) - 1)

\* delete registry.sessions[id]
DeleteKey(s, id) == SelectSeq(s, LAMBDA p : p.key # id)

Continue(doc, save) == [threw |-> FALSE, doc |-> doc, save |-> save]
TypeError == [threw |-> TRUE, doc |-> NoDoc, save |-> FALSE]

\* A register that merges into an entry it finds: the stored startedAt stays.
RegisterMerging(reg, entry) ==
    Continue([reg EXCEPT !.sessions =
                 SetKey(@, entry.sessionId,
                        IF HasKey(@, entry.sessionId)
                        THEN [entry EXCEPT !.startedAt = GetKey(reg.sessions, entry.sessionId).startedAt]
                        ELSE entry)],
             TRUE)

\* A register that files the entry under its cwd.
RegisterByCwd(reg, entry) ==
    Continue([reg EXCEPT !.sessions = SetKey(@, entry.cwd, entry)], TRUE)

\* A register that stores the entry with its cwd rewritten (resolved against
\* the directory the process runs in).
RegisterResolvingCwd(reg, entry) ==
    Continue([reg EXCEPT !.sessions =
                 SetKey(@, entry.sessionId, [entry EXCEPT !.cwd = "/x"])],
             TRUE)

\* registerSession, line 124 (a property of null cannot be set).
RegisterSession(reg, entry) ==
    IF reg.sessKind = "null" THEN TypeError
    ELSE Continue([reg EXCEPT !.sessions = SetKey(@, entry.sessionId, entry)], TRUE)

\* An update that also restarts the session's startedAt.
UpdateRestarting(reg, sessionId, status, now) ==
    IF HasKey(reg.sessions, sessionId)
    THEN Continue([reg EXCEPT !.sessions =
                      SetKey(@, sessionId,
                             [GetKey(@, sessionId) EXCEPT !.status = status,
                                                          !.updatedAt = now,
                                                          !.startedAt = now])],
                  TRUE)
    ELSE Continue(reg, FALSE)

\* An update that saves whether or not it found the entry.
UpdateAlwaysSaving(reg, sessionId, status, now) ==
    IF HasKey(reg.sessions, sessionId)
    THEN Continue([reg EXCEPT !.sessions =
                      SetKey(@, sessionId,
                             [GetKey(@, sessionId) EXCEPT !.status = status,
                                                          !.updatedAt = now])],
                  TRUE)
    ELSE Continue(reg, TRUE)

\* An update that creates the entry it does not find.
UpdateUpserting(reg, sessionId, status, now) ==
    Continue([reg EXCEPT !.sessions =
                 SetKey(@, sessionId,
                        IF HasKey(@, sessionId)
                        THEN [GetKey(reg.sessions, sessionId) EXCEPT !.status = status,
                                                                     !.updatedAt = now]
                        ELSE Entry(sessionId, "/x", status, now, now, "claude", "json",
                                   "none", "none", "none"))],
             TRUE)

\* updateRegistryStatus, lines 136-142.
UpdateRegistryStatus(reg, sessionId, status, now) ==
    IF reg.sessKind = "null" THEN TypeError
    ELSE IF HasKey(reg.sessions, sessionId)
         THEN Continue([reg EXCEPT !.sessions =
                           SetKey(@, sessionId,
                                  [GetKey(@, sessionId) EXCEPT !.status = status,
                                                               !.updatedAt = now])],
                       TRUE)
         ELSE Continue(reg, FALSE)

\* An unregister that saves only what it changed.
UnregisterIfPresent(reg, sessionId) ==
    Continue([reg EXCEPT !.sessions = DeleteKey(@, sessionId)],
             HasKey(reg.sessions, sessionId))

\* unregisterSession, line 150.
UnregisterSession(reg, sessionId) ==
    IF reg.sessKind = "null" THEN TypeError
    ELSE Continue([reg EXCEPT !.sessions = DeleteKey(@, sessionId)], TRUE)

\* A loop that reads the predicate the wrong way round: it removes the
\* entries whose session exists.
CleanupRemovingLive(reg, cleaned, pair, exists) ==
    IF ~exists
    THEN [doc |-> reg, cleaned |-> cleaned]
    ELSE [doc |-> [reg EXCEPT !.sessions = DeleteKey(@, pair.key)],
          cleaned |-> cleaned + 1]

\* cleanupStaleRegistryEntries, lines 212-216: one turn of the loop, given
\* the predicate's answer.
CleanupEntry(reg, cleaned, pair, exists) ==
    IF exists
    THEN [doc |-> reg, cleaned |-> cleaned]
    ELSE [doc |-> [reg EXCEPT !.sessions = DeleteKey(@, pair.key)],
          cleaned |-> cleaned + 1]

\* A cleanup that saves after every scan.
CleanupAlwaysSaves(cleaned) == cleaned >= 0

\* cleanupStaleRegistryEntries, line 219.
CleanupSaves(cleaned) == cleaned > 0

\* ---------------------------------------------------------------- queries
\* The characters of the strings that serve as session IDs and prefixes.
Chars(s) ==
    CASE s = "" -> <<>>
      [] s = "a" -> <<"a">>
      [] s = "b" -> <<"b">>
      [] s = "A" -> <<"A">>
      [] s = "ab" -> <<"a", "b">>
      [] s = "abc" -> <<"a", "b", "c">>

\* toLowerCase() of one character.
Lower(ch) == IF ch = "A" THEN "a" ELSE ch

\* A comparison that ignores case:
\* id.toLowerCase().startsWith(prefix.toLowerCase()).
StartsWithIgnoringCase(id, prefix) ==
    /\ Len(Chars(prefix)) <= Len(Chars(id))
    /\ \A i \in 1..Len(Chars(prefix)) : Lower(Chars(id)[i]) = Lower(Chars(prefix)[i])

\* id.startsWith(prefix), line 236: the first characters of id are those of
\* prefix, compared code unit by code unit.
StartsWith(id, prefix) ==
    /\ Len(Chars(prefix)) <= Len(Chars(id))
    /\ SubSeq(Chars(id), 1, Len(Chars(prefix))) = Chars(prefix)

\* Object.values(registry.sessions)
Values(s) == [i \in 1..Len(s) |-> s[i].val]

\* A query's answer: a list of entries (an entry or null is a list of one or
\* none); save tells whether the function goes on to saveRegistry.
Answer(found, save) == [threw |-> FALSE, found |-> found, save |-> save]

\* getSessionById, line 161.
GetSessionById(reg, sessionId) ==
    IF reg.sessKind = "null" THEN TypeError
    ELSE Answer(IF HasKey(reg.sessions, sessionId)
                THEN <<GetKey(reg.sessions, sessionId)>>
                ELSE <<>>,
                FALSE)

\* A search that keeps the last match: the loop without its early return.
GetLastSessionByCwd(reg, cwd) ==
    IF reg.sessKind = "null" THEN TypeError
    ELSE LET at == SelectSeq(Values(reg.sessions), LAMBDA e : e.cwd = cwd)
         IN  Answer(IF at = <<>> THEN <<>> ELSE <<at[Len(at)]>>, FALSE)

\* getSessionByCwd, lines 172-178: the first entry of the enumeration at cwd.
GetSessionByCwd(reg, cwd) ==
    IF reg.sessKind = "null" THEN TypeError
    ELSE LET at == SelectSeq(Values(reg.sessions), LAMBDA e : e.cwd = cwd)
         IN  Answer(IF at = <<>> THEN <<>> ELSE <<Head(at)>>, FALSE)

\* A list of resumable statuses that leaves out the interrupted sessions.
ResumableWithoutInterrupted == {"paused", "running"}

\* listResumableSessions, line 187.
ResumableStatuses == {"paused", "running", "interrupted"}

\* listResumableSessions, lines 188-190.
ListResumableSessions(reg) ==
    IF reg.sessKind = "null" THEN TypeError
    ELSE Answer(SelectSeq(Values(reg.sessions), LAMBDA e : e.status \in ResumableStatuses),
                FALSE)

\* A listing that writes back what it loaded, creating or repairing the file.
ListAllSessionsSaving(reg) ==
    IF reg.sessKind = "null" THEN TypeError
    ELSE Answer(Values(reg.sessions), TRUE)

\* listAllSessions, line 198.
ListAllSessions(reg) ==
    IF reg.sessKind = "null" THEN TypeError
    ELSE Answer(Values(reg.sessions), FALSE)

\* findSessionsByPrefix, lines 235-236.
FindSessionsByPrefix(reg, prefix) ==
    IF reg.sessKind = "null" THEN TypeError
    ELSE Answer(Values(SelectSeq(reg.sessions, LAMBDA x : StartsWith(x.key, prefix))),
                FALSE)

\* ------------------------------------------------------------------ state
VARIABLES
    dirExists,  \* REGISTRY_DIR exists
    file,       \* the registry file
    clock,      \* the wall clock
    pc,         \* per caller: the await its operation is suspended at
    call,       \* per caller: the operation and its arguments
    reg,        \* per caller: the operation's local `registry`
    todo,       \* per caller: the entries cleanup has still to visit
    cleaned,    \* per caller: cleanup's local `cleaned`
    ops,        \* history, per caller: what its current or last operation saw and did
    nops,       \* history: operations started
    nwrites,    \* history: writeFile calls that changed the file
    registered, \* history: the entries registerSession was called with, known
                \* when the callers began with no registry file
    shadow      \* reference: an in-memory map taken through the operations that ended

vars == <<dirExists, file, clock, pc, call, reg, todo, cleaned, ops, nops, nwrites,
          registered, shadow>>
locals == <<reg, todo, cleaned>>

NoCall == [name |-> "none", entry |-> EntryA1, id |-> "a", status |-> "running",
           alive |-> AllAlive, cwd |-> "/x", prefix |-> ""]
CallRegister(e) == [NoCall EXCEPT !.name = "register", !.entry = e, !.id = e.sessionId]
CallUpdate(id, st) == [NoCall EXCEPT !.name = "updateStatus", !.id = id, !.status = st]
CallUnregister(id) == [NoCall EXCEPT !.name = "unregister", !.id = id]
CallCleanup(alive) == [NoCall EXCEPT !.name = "cleanup", !.alive = alive]

CallGetById(id) == [NoCall EXCEPT !.name = "getById", !.id = id]
CallGetByCwd(cwd) == [NoCall EXCEPT !.name = "getByCwd", !.cwd = cwd]
CallListResumable == [NoCall EXCEPT !.name = "listResumable"]
CallListAll == [NoCall EXCEPT !.name = "listAll"]
CallFindByPrefix(prefix) == [NoCall EXCEPT !.name = "findByPrefix", !.prefix = prefix]

Mutations == {"register", "updateStatus", "unregister", "cleanup"}
Queries == {"getById", "getByCwd", "listResumable", "listAll", "findByPrefix"}

Calls ==
    {CallRegister(e) : e \in RegisterInputs}
        \cup {CallUpdate(id, st) : id \in IdInputs, st \in StatusInputs}
        \cup {CallUnregister(id) : id \in IdInputs}
        \cup {CallCleanup(alive) : alive \in Predicates}
        \cup {CallGetById(id) : id \in Ids}
        \cup {CallGetByCwd(cwd) : cwd \in CwdInputs}
        \cup {CallListResumable, CallListAll}
        \cup {CallFindByPrefix(prefix) : prefix \in PrefixInputs}

NoOp ==
    [state |-> "unused", seq |-> 0, began |-> 0, call |-> NoCall, overlap |-> FALSE,
     seen |-> AbsentFile, loadDone |-> FALSE,
     loaded |-> NoDoc, sawWrites |-> 0, stamp |-> 0, saved |-> NoDoc,
     saves |-> 0, writes |-> 0, mkdirs |-> 0, wrotePos |-> 0, err |-> "none", ret |-> 0,
     found |-> <<>>, hadDir |-> FALSE]

\* Documents as saveRegistry writes them: version 1, keys equal to sessionId.
DocOf(entries) ==
    SessionRegistry("num1", "object",
                    [i \in 1..Len(entries) |-> Pair(entries[i].sessionId, entries[i])])

ValidFiles ==
    {JsonFile(DocOf(es)) : es \in {<<EntryB, EntryA2>>, <<EntryA1, EntryAB, EntryB>>}}

\* Files that JSON.parse accepts and that are no registry document.
ForeignFiles ==
    {FileOf("json", "null", NoDoc), FileOf("json", "number", NoDoc)}
        \cup {JsonFile(SessionRegistry(v, "object", DocOf(<<EntryA1>>).sessions)) :
                v \in {"num2", "str1", "missing"}}
        \cup {JsonFile(SessionRegistry("num1", sk, <<>>)) :
                sk \in {"null", "array", "string", "number", "missing"}}

\* compared: the callers' operations are to be compared with the reference map.
InitWith(files, compared) ==
    /\ file \in files
    /\ dirExists = (file.kind # "absent")
    /\ clock = 2
    /\ pc = [p \in Procs |-> "idle"]
    /\ call = [p \in Procs |-> NoCall]
    /\ reg = [p \in Procs |-> NoDoc]
    /\ todo = [p \in Procs |-> <<>>]
    /\ cleaned = [p \in Procs |-> 0]
    /\ ops = [p \in Procs |-> NoOp]
    /\ nops = 0
    /\ nwrites = 0
    /\ registered = [known |-> file.kind = "absent", entries |-> {}]
    /\ shadow = IF compared /\ file.kind \in {"absent", "json"}
                THEN [ok |-> TRUE, map |-> file.sessions]
                ELSE [ok |-> FALSE, map |-> <<>>]

\* The registry as this program and its crashes leave it.
Init == InitWith({AbsentFile, UnreadableFile, GarbageFile} \cup ValidFiles, FALSE)
InitSeq == InitWith({AbsentFile, UnreadableFile, GarbageFile} \cup ValidFiles, TRUE)
\* Any file at the registry path.
InitAny == InitWith({AbsentFile, UnreadableFile, GarbageFile, TruncatedFile,
                     JsonFile(DocOf(<<EntryA1, EntryAB, EntryB>>))} \cup ForeignFiles,
                    FALSE)

\* ---------------------------------------------------------------- history
Finish(rec, err, ret) == [rec EXCEPT !.state = "done", !.err = err, !.ret = ret]

\* The caller's operation returns (err = "none") or rejects with err.
Return(p, rec, err, ret) ==
    /\ pc' = [pc EXCEPT ![p] = "idle"]
    /\ ops' = [ops EXCEPT ![p] = Finish(rec, err, ret)]

\* -------------------------------------------------------------- reference
\* The reference the operations are compared with: a map in memory, its keys
\* in insertion order, on which each operation acts at once when it returns.
\* Once an operation rejects, or if the file the callers began with was
\* neither absent nor a document, there is no reference.
MapSet(m, k, v) ==
    IF \E i \in DOMAIN m : m[i].key = k
    THEN [i \in DOMAIN m |-> IF m[i].key = k THEN Pair(k, v) ELSE m[i]]
    ELSE m \o <<Pair(k, v)>>

MapApply(c, t, m) ==
    CASE c.name = "register" -> MapSet(m, c.entry.sessionId, c.entry)
      [] c.name = "updateStatus" ->
            [i \in DOMAIN m |->
                IF m[i].key = c.id
                THEN Pair(c.id, [m[i].val EXCEPT !.status = c.status, !.updatedAt = t])
                ELSE m[i]]
      [] c.name = "unregister" -> SelectSeq(m, LAMBDA x : x.key # c.id)
      [] c.name = "cleanup" -> SelectSeq(m, LAMBDA x : c.alive[x.val.cwd])
      [] OTHER -> m

NoReference == [ok |-> FALSE, map |-> <<>>]

Mirror ==
    shadow' =
        IF \E p \in Procs : pc[p] # "idle" /\ pc'[p] = "idle"
        THEN LET p == CHOOSE r \in Procs : pc[r] # "idle" /\ pc'[r] = "idle"
             IN  IF shadow.ok /\ ops'[p].err = "none"
                 THEN [ok |-> TRUE, map |-> MapApply(call[p], ops'[p].stamp, shadow.map)]
                 ELSE NoReference
        ELSE shadow

\* ------------------------------------------------------------------ actions
\* A caller invokes an operation: it runs up to loadRegistry's access().
Start(p, c) ==
    /\ pc[p] = "idle"
    /\ p = FirstCaller \/ nops > 0
    /\ nops' = nops + 1
    /\ call' = [call EXCEPT ![p] = c]
    /\ pc' = [pc EXCEPT ![p] = "load_access"]
    /\ reg' = [reg EXCEPT ![p] = NoDoc]
    /\ todo' = [todo EXCEPT ![p] = <<>>]
    /\ cleaned' = [cleaned EXCEPT ![p] = 0]
    /\ ops' = [q \in Procs |->
                 IF q = p
                 THEN [NoOp EXCEPT !.state = "running", !.seq = nops + 1, !.call = c,
                                   !.began = clock, !.hadDir = dirExists,
                                   !.overlap = \E r \in Procs \ {p} : pc[r] # "idle"]
                 ELSE IF ops[q].state = "running"
                      THEN [ops[q] EXCEPT !.overlap = TRUE]
                      ELSE ops[q]]
    /\ registered' = IF registered.known /\ c.name = "register"
                     THEN [registered EXCEPT !.entries = @ \cup {c.entry}]
                     ELSE registered
    /\ UNCHANGED <<dirExists, file, clock, nwrites, shadow>>

CallRegisterSession(p) == \E e \in RegisterInputs : Start(p, CallRegister(e))
CallUpdateRegistryStatus(p) ==
    \E id \in IdInputs, st \in StatusInputs : Start(p, CallUpdate(id, st))
CallUnregisterSession(p) == \E id \in IdInputs : Start(p, CallUnregister(id))
CallCleanupStaleRegistryEntries(p) == \E alive \in Predicates : Start(p, CallCleanup(alive))

CallGetSessionById(p) == \E id \in Ids : Start(p, CallGetById(id))
CallGetSessionByCwd(p) == \E cwd \in CwdInputs : Start(p, CallGetByCwd(cwd))
CallListResumableSessions(p) == Start(p, CallListResumable)
CallListAllSessions(p) == Start(p, CallListAll)
CallFindSessionsByPrefix(p) == \E prefix \in PrefixInputs : Start(p, CallFindByPrefix(prefix))

\* The synchronous section a query runs on the document it loaded.
Query(c, doc) ==
    CASE c.name = "getById" -> GetSessionById(doc, c.id)
      [] c.name = "getByCwd" -> GetSessionByCwd(doc, c.cwd)
      [] c.name = "listResumable" -> ListResumableSessions(doc)
      [] c.name = "listAll" -> ListAllSessions(doc)
      [] OTHER -> FindSessionsByPrefix(doc, c.prefix)

\* The synchronous section a mutation runs on the document it loaded.
Mutate(c, doc, now) ==
    CASE c.name = "register" -> RegisterSession(doc, c.entry)
      [] c.name = "updateStatus" -> UpdateRegistryStatus(doc, c.id, c.status, now)
      [] OTHER -> UnregisterSession(doc, c.id)

\* cleanup after its loop (lines 219-223): save once, or return the count.
AfterLoop(p, rec, doc, n) ==
    IF CleanupSaves(n)
    THEN /\ pc' = [pc EXCEPT ![p] = "save_access"]
         /\ ops' = [ops EXCEPT ![p] = [rec EXCEPT !.saved = doc, !.saves = @ + 1,
                                                  !.ret = n]]
    ELSE Return(p, rec, "none", n)

\* loadRegistry returned r to the operation of p, which runs on to its next
\* await or to its end.  seen is the file the load decided on, now the
\* reading of the clock in this section.
Resume(p, r, seen, now) ==
    LET c == call[p]
        rec == [ops[p] EXCEPT !.seen = seen, !.loadDone = TRUE,
                                   !.loaded = r.doc, !.sawWrites = nwrites,
                                   !.stamp = now]
    IN  IF r.threw
        THEN /\ Return(p, [rec EXCEPT !.loaded = NoDoc], "LoadError", 0)
             /\ UNCHANGED locals
        ELSE IF c.name = "cleanup"
        THEN IF r.doc.sessKind = "null"
             THEN /\ Return(p, rec, "TypeError", 0)
                  /\ UNCHANGED locals
             ELSE /\ reg' = [reg EXCEPT ![p] = r.doc]
                  /\ todo' = [todo EXCEPT ![p] = r.doc.sessions]
                  /\ cleaned' = [cleaned EXCEPT ![p] = 0]
                  /\ IF r.doc.sessions = <<>>
                     THEN AfterLoop(p, rec, r.doc, 0)
                     ELSE /\ pc' = [pc EXCEPT ![p] = "check"]
                          /\ ops' = [ops EXCEPT ![p] = rec]
        ELSE IF c.name \in Queries
        THEN LET q == Query(c, r.doc)
             IN  /\ reg' = [reg EXCEPT ![p] = r.doc]
                 /\ UNCHANGED <<todo, cleaned>>
                 /\ IF q.threw
                    THEN Return(p, rec, "TypeError", 0)
                    ELSE IF q.save
                    THEN /\ pc' = [pc EXCEPT ![p] = "save_access"]
                         /\ ops' = [ops EXCEPT ![p] =
                                       [rec EXCEPT !.saved = r.doc, !.saves = @ + 1,
                                                   !.found = q.found]]
                    ELSE Return(p, [rec EXCEPT !.found = q.found], "none", 0)
        ELSE LET m == Mutate(c, r.doc, now)
             IN  IF m.threw
                 THEN /\ Return(p, rec, "TypeError", 0)
                      /\ UNCHANGED locals
                 ELSE /\ reg' = [reg EXCEPT ![p] = m.doc]
                      /\ UNCHANGED <<todo, cleaned>>
                      /\ IF m.save
                         THEN /\ pc' = [pc EXCEPT ![p] = "save_access"]
                              /\ ops' = [ops EXCEPT ![p] =
                                            [rec EXCEPT !.saved = m.doc, !.saves = @ + 1]]
                         ELSE Return(p, rec, "none", 0)

\* new Date() at line 140: the clock never runs backwards.  Only
\* updateRegistryStatus reads it, so time is let pass where it does.
Readings(p) == IF call[p].name = "updateStatus" THEN clock..MaxClock ELSE {clock}

\* loadRegistry, line 95: access(registryPath) rejects when the file is absent.
LoadAccess(p) ==
    /\ pc[p] = "load_access"
    /\ IF file.kind = "absent"
       THEN \E now \in Readings(p) :
               /\ Resume(p, Catch(Threw), file, now)
               /\ clock' = now
       ELSE /\ pc' = [pc EXCEPT ![p] = "load_read"]
            /\ UNCHANGED <<locals, ops, clock>>
    /\ UNCHANGED <<dirExists, file, call, nops, nwrites, registered>>
    /\ Mirror

\* loadRegistry, lines 96-107: readFile resolves or rejects; parse, validate.
LoadRead(p) ==
    /\ pc[p] = "load_read"
    /\ \E now \in Readings(p) :
          /\ Resume(p, Catch(ReadParseValidate(file)), file, now)
          /\ clock' = now
    /\ UNCHANGED <<dirExists, file, call, nops, nwrites, registered>>
    /\ Mirror

\* cleanup, line 212: checkSessionExists(entry.cwd) resolves for the next entry.
CheckSessionExists(p) ==
    /\ pc[p] = "check"
    /\ LET pair == Head(todo[p])
           step == CleanupEntry(reg[p], cleaned[p], pair, call[p].alive[pair.val.cwd])
       IN  /\ reg' = [reg EXCEPT ![p] = step.doc]
           /\ cleaned' = [cleaned EXCEPT ![p] = step.cleaned]
           /\ todo' = [todo EXCEPT ![p] = Tail(todo[p])]
           /\ IF Tail(todo[p]) = <<>>
              THEN AfterLoop(p, ops[p], step.doc, step.cleaned)
              ELSE UNCHANGED <<pc, ops>>
    /\ UNCHANGED <<dirExists, file, clock, call, nops, nwrites, registered>>
    /\ Mirror

\* ensureRegistryDir, line 82: access(REGISTRY_DIR).
EnsureAccess(p) ==
    /\ pc[p] = "save_access"
    /\ pc' = [pc EXCEPT ![p] = IF dirExists THEN "save_write" ELSE "save_mkdir"]
    /\ UNCHANGED <<dirExists, file, clock, call, locals, ops, nops, nwrites, registered,
                   shadow>>

\* ensureRegistryDir, line 84: mkdir(REGISTRY_DIR, {recursive: true}) creates the
\* directory (or finds it), or rejects and the operation rejects with it.
EnsureMkdir(p) ==
    /\ pc[p] = "save_mkdir"
    /\ LET rec == [ops[p] EXCEPT !.mkdirs = @ + 1]
       IN  \/ /\ dirExists' = TRUE
              /\ pc' = [pc EXCEPT ![p] = "save_write"]
              /\ ops' = [ops EXCEPT ![p] = rec]
           \/ /\ Return(p, rec, "EACCES", 0)
              /\ UNCHANGED dirExists
    /\ UNCHANGED <<file, clock, call, locals, nops, nwrites, registered>>
    /\ Mirror

\* A save that tries writeFile once more when it rejects.
SaveRetriesOnce == TRUE

\* saveRegistry, lines 113-117: no catch, no loop around mkdir and writeFile.
SaveRetries == FALSE

\* writeFile rejected with err: saveRegistry and the operation reject with it.
Reject(p, rec, err) ==
    IF SaveRetries /\ rec.writes < 2
    THEN /\ ops' = [ops EXCEPT ![p] = rec]
         /\ UNCHANGED pc
    ELSE Return(p, rec, err, 0)

\* saveRegistry, line 116: writeFile replaces the file by the serialised
\* registry; or rejects, leaving a file that cannot be read as it was
\* (EACCES: it cannot be written either) and any other cut short (ENOSPC).
WriteFile(p) ==
    /\ pc[p] = "save_write"
    /\ LET rec == [ops[p] EXCEPT !.writes = @ + 1]
       IN  \/ /\ file.kind # "unreadable"
              /\ file' = SaveRegistry(file, reg[p])
              /\ nwrites' = nwrites + 1
              /\ Return(p, [rec EXCEPT !.wrotePos = nwrites + 1], "none", rec.ret)
           \/ /\ file.kind = "unreadable"
              /\ Reject(p, rec, "EACCES")
              /\ UNCHANGED <<file, nwrites>>
           \/ /\ file.kind # "unreadable"
              /\ file' = TruncatedFile
              /\ nwrites' = nwrites + 1
              /\ Reject(p, rec, "ENOSPC")
    /\ UNCHANGED <<dirExists, clock, call, locals, nops, registered>>
    /\ Mirror

\* Two callers with no order between their operations.
Interleaved == nops < MaxOps

Next ==
    \E p \in Procs :
          \/ Interleaved /\ CallRegisterSession(p)
          \/ Interleaved /\ CallUpdateRegistryStatus(p)
          \/ Interleaved /\ CallUnregisterSession(p)
          \/ Interleaved /\ CallCleanupStaleRegistryEntries(p)
          \/ LoadAccess(p)
          \/ LoadRead(p)
          \/ CheckSessionExists(p)
          \/ EnsureAccess(p)
          \/ EnsureMkdir(p)
          \/ WriteFile(p)

\* Callers that take turns: an operation is called when none is running, by
\* the caller that did not call the one before.
InTurn(p) ==
    /\ nops < MaxSeqOps
    /\ \A r \in Procs : pc[r] = "idle"
    /\ ops[p].seq = 0 \/ \E r \in Procs \ {p} : ops[r].seq > ops[p].seq

\* The callers taking turns, with the queries among their operations.
NextSeq ==
    \E p \in Procs :
          \/ InTurn(p) /\ CallRegisterSession(p)
          \/ InTurn(p) /\ CallUpdateRegistryStatus(p)
          \/ InTurn(p) /\ CallUnregisterSession(p)
          \/ InTurn(p) /\ CallCleanupStaleRegistryEntries(p)
          \/ InTurn(p) /\ CallGetSessionById(p)
          \/ InTurn(p) /\ CallGetSessionByCwd(p)
          \/ InTurn(p) /\ CallListResumableSessions(p)
          \/ InTurn(p) /\ CallListAllSessions(p)
          \/ InTurn(p) /\ CallFindSessionsByPrefix(p)
          \/ LoadAccess(p)
          \/ LoadRead(p)
          \/ CheckSessionExists(p)
          \/ EnsureAccess(p)
          \/ EnsureMkdir(p)
          \/ WriteFile(p)

Spec == Init /\ [][Next]_vars
SpecSeq == InitSeq /\ [][NextSeq]_vars
SpecAny == InitAny /\ [][Next]_vars

\* ------------------------------------------------------------- vocabulary
Done(p) == ops[p].state = "done"
Returned(p) == Done(p) /\ ops[p].err = "none"
\* The file is as the write of p's operation left it.
WroteLast(p) == ops[p].wrotePos > 0 /\ ops[p].wrotePos = nwrites
Others(s, id) == SelectSeq(s, LAMBDA x : x.key # id)
RegistryFile(s) ==
    [kind |-> "json", top |-> "object", version |-> "num1", sessKind |-> "object",
     sessions |-> s]
EmptyDocument == [version |-> "num1", sessKind |-> "object", sessions |-> <<>>]

\* after is before with the one change of call c made at time t, nothing else.
OnlyChange(c, t, before, after) ==
    CASE c.name = "register" ->
            /\ Cardinality({i \in 1..Len(after) : after[i].key = c.id}) = 1
            /\ GetKey(after, c.id) = c.entry
            /\ Others(after, c.id) = Others(before, c.id)
      [] c.name = "updateStatus" ->
            /\ Len(after) = Len(before)
            /\ \A i \in 1..Len(after) :
                  /\ after[i].key = before[i].key
                  /\ after[i].key # c.id => after[i] = before[i]
                  /\ after[i].key = c.id =>
                        /\ after[i].val.status = c.status
                        /\ after[i].val.updatedAt = t
                        /\ [after[i].val EXCEPT !.status = "running", !.updatedAt = 0]
                              = [before[i].val EXCEPT !.status = "running", !.updatedAt = 0]
      [] c.name = "unregister" -> after = Others(before, c.id)
      [] OTHER -> after = SelectSeq(before, LAMBDA x : c.alive[x.val.cwd])

\* ------------------------------------------------------------------ claims
\* C1: when two operations race (each loads before either saves, both save),
\* the file after both is the document of the save that happened last: that
\* operation's loaded document with its own change only, so that what the
\* other operation registered is not in it and what the other removed still is.
Raced(p, q) ==
    /\ Returned(p) /\ Returned(q)
    /\ ops[p].wrotePos > 0 /\ ops[q].wrotePos > 0
    /\ ops[p].sawWrites < ops[q].wrotePos
    /\ ops[q].sawWrites < ops[p].wrotePos

C1_LastSaveWins ==
    \A p, q \in Procs :
        (p # q /\ Raced(p, q) /\ ops[p].wrotePos < ops[q].wrotePos /\ WroteLast(q)) =>
            LET lost == ops[p].call
                won == ops[q].call
                had == ops[q].loaded.sessions
            IN  /\ file.kind = "json" /\ file.top = "object"
                /\ file.version = "num1" /\ file.sessKind = "object"
                /\ OnlyChange(won, ops[q].stamp, had, file.sessions)
                /\ (lost.name = "register" /\ ~HasKey(had, lost.id)
                        /\ ~(won.name = "register" /\ won.id = lost.id))
                     => ~HasKey(file.sessions, lost.id)
                /\ (lost.name = "unregister" /\ HasKey(had, lost.id)
                        /\ ~(won.name = "unregister" /\ won.id = lost.id)
                        /\ (won.name = "cleanup" => won.alive[GetKey(had, lost.id).cwd]))
                     => HasKey(file.sessions, lost.id)

\* C1's case: a register that lost the race against an unregister of another ID.
C1_Witness ==
    \E p, q \in Procs :
        /\ p # q /\ Raced(p, q) /\ ops[p].wrotePos < ops[q].wrotePos /\ WroteLast(q)
        /\ ops[p].call.name = "register" /\ ops[q].call.name = "unregister"
        /\ ~HasKey(ops[q].loaded.sessions, ops[p].call.id)
        /\ HasKey(ops[q].loaded.sessions, ops[q].call.id)

\* C2: every key of the persisted sessions map is the sessionId of its entry.
C2_KeysAreSessionIds ==
    file.kind = "json" =>
        \A i \in 1..Len(file.sessions) : file.sessions[i].key = file.sessions[i].val.sessionId

\* C2's case: an absent registry that two racing registers have filled.
C2_Witness ==
    /\ file.kind = "json" /\ Len(file.sessions) >= 1
    /\ \A p \in Procs :
          /\ Returned(p) /\ ops[p].call.name = "register" /\ ops[p].overlap
          /\ ops[p].seen.kind = "absent"

\* C3: loadRegistry never rejects, and an absent, unreadable or non-JSON file
\* (a truncated one included) loads as {version: 1, sessions: {}}.
C3_LoadFailsOpen ==
    \A p \in Procs :
        /\ ops[p].err # "LoadError"
        /\ (ops[p].loadDone
              /\ ops[p].seen.kind \in {"absent", "unreadable", "garbage", "truncated"})
             => ops[p].loaded = EmptyDocument

\* C3's case: a load of the file a failed write cut short.
C3_Witness ==
    \E p \in Procs : ops[p].loadDone /\ ops[p].seen.kind = "truncated" /\ nwrites > 0

\* C4: a parseable file whose version is not 1 or whose sessions is no mapping
\* loads as the empty document; every loaded document has version 1 and a
\* sessions mapping.
C4_MalformedLoadsEmpty ==
    \A p \in Procs :
        ops[p].loadDone =>
            /\ (ops[p].seen.kind = "json"
                  /\ (ops[p].seen.top # "object" \/ ops[p].seen.version # "num1"
                        \/ ops[p].seen.sessKind # "object"))
                 => ops[p].loaded = EmptyDocument
            /\ ops[p].loaded.version = "num1"
            /\ ops[p].loaded.sessKind = "object"

\* q's operation began after p's ended, nothing ran beside or between them.
InSequence(p, q) ==
    /\ Done(p) /\ Done(q)
    /\ ops[q].seq = ops[p].seq + 1
    /\ ~ops[p].overlap /\ ~ops[q].overlap

SaveErrors == {"EACCES", "ENOSPC"}
SavePcs == {"save_access", "save_mkdir", "save_write"}

\* A step of caller p, in an operation named name, outside saveRegistry.
StepOutsideSave(p, name) ==
    /\ call'[p].name = name
    /\ pc[p] \notin SavePcs
    /\ pc'[p] # pc[p] \/ todo'[p] # todo[p]

DiskUnchanged == file' = file /\ dirExists' = dirExists

\* C5: register(e) then register(e') with the same sessionId, nothing in
\* between, leaves one entry under the ID, equal to e' in every field, and
\* every other entry as it was; any register that returns has saved once the
\* loaded document with its entry set, whatever IDs and cwds were there.
C5_RegisterOverwrites ==
    /\ \A p \in Procs :
          (Returned(p) /\ ops[p].call.name = "register") =>
              /\ ops[p].saves = 1 /\ ops[p].writes = 1
              /\ OnlyChange(ops[p].call, ops[p].stamp, ops[p].loaded.sessions,
                            ops[p].saved.sessions)
              /\ WroteLast(p) => file = RegistryFile(ops[p].saved.sessions)
    /\ \A p, q \in Procs :
          (InSequence(p, q) /\ Returned(p) /\ Returned(q)
             /\ ops[p].call.name = "register" /\ ops[q].call.name = "register"
             /\ ops[p].call.id = ops[q].call.id) =>
              LET id == ops[q].call.id
                  after == ops[q].saved.sessions
              IN  /\ ops[q].loaded.sessions = ops[p].saved.sessions
                  /\ Cardinality({i \in 1..Len(after) : after[i].key = id}) = 1
                  /\ GetKey(after, id) = ops[q].call.entry
                  /\ Others(after, id) = Others(ops[p].loaded.sessions, id)
                  /\ WroteLast(q) => file = RegistryFile(after)

\* C5's case: two registers of one ID with different entries, in a registry
\* that holds another session at the cwd of the second.
C5_Witness ==
    \E p, q \in Procs :
        /\ InSequence(p, q) /\ Returned(p) /\ Returned(q)
        /\ ops[p].call.name = "register" /\ ops[q].call.name = "register"
        /\ ops[p].call.id = ops[q].call.id
        /\ ops[p].call.entry # ops[q].call.entry
        /\ \E i \in 1..Len(ops[p].loaded.sessions) :
              /\ ops[p].loaded.sessions[i].key # ops[q].call.id
              /\ ops[p].loaded.sessions[i].val.cwd = ops[q].call.entry.cwd
        /\ WroteLast(q)

\* C6: updateStatus(id, s) on an ID of the loaded document saves once, and
\* the saved document is the loaded one except for that entry's status (s) and
\* updatedAt (the time read during the call).
C6_UpdateChangesStatusOnly ==
    \A p \in Procs :
        (Done(p) /\ ops[p].call.name = "updateStatus"
           /\ HasKey(ops[p].loaded.sessions, ops[p].call.id)) =>
            /\ ops[p].saves = 1 /\ ops[p].writes <= 1
            /\ ops[p].err \in {"none"} \cup SaveErrors
            /\ ops[p].saved.version = "num1" /\ ops[p].saved.sessKind = "object"
            /\ OnlyChange(ops[p].call, ops[p].stamp, ops[p].loaded.sessions,
                          ops[p].saved.sessions)
            /\ ops[p].began <= ops[p].stamp /\ ops[p].stamp <= clock
            /\ Returned(p) =>
                  /\ ops[p].writes = 1
                  /\ WroteLast(p) => file = RegistryFile(ops[p].saved.sessions)

\* C6's case: an update, among three entries, that changed the status and the
\* time of one.
C6_Witness ==
    \E p \in Procs :
        /\ Returned(p) /\ ops[p].call.name = "updateStatus" /\ WroteLast(p)
        /\ Len(ops[p].loaded.sessions) = 3
        /\ HasKey(ops[p].loaded.sessions, ops[p].call.id)
        /\ GetKey(ops[p].loaded.sessions, ops[p].call.id).status # ops[p].call.status
        /\ GetKey(ops[p].loaded.sessions, ops[p].call.id).updatedAt # ops[p].stamp
        /\ ops[p].stamp > ops[p].began

\* C7: updateStatus on an ID that the loaded document lacks never calls save
\* and returns without error, and no step of it changes the file or the
\* directory, whatever the file is.
C7_UpdateAbsentNoSave ==
    \A p \in Procs :
        (Done(p) /\ ops[p].call.name = "updateStatus"
           /\ ~HasKey(ops[p].loaded.sessions, ops[p].call.id)) =>
            /\ ops[p].err = "none"
            /\ ops[p].saves = 0 /\ ops[p].writes = 0 /\ ops[p].mkdirs = 0
            /\ ops[p].saved = NoDoc

C8_UnregisterAlwaysSaves ==
    \A p \in Procs :
        (Done(p) /\ ops[p].call.name = "unregister") =>
            /\ ops[p].loadDone
            /\ ops[p].saves = 1 /\ ops[p].writes <= 1
            /\ ops[p].err \in {"none"} \cup SaveErrors
            /\ ops[p].saved.version = "num1" /\ ops[p].saved.sessKind = "object"
            /\ ops[p].saved.sessions = Others(ops[p].loaded.sessions, ops[p].call.id)
            /\ ~HasKey(ops[p].loaded.sessions, ops[p].call.id)
                 => ops[p].saved.sessions = ops[p].loaded.sessions
            /\ Returned(p) =>
                  /\ ops[p].writes = 1
                  /\ WroteLast(p) => file = RegistryFile(ops[p].saved.sessions)

\* C8's case: an unregister that found no registry file and left an empty one.
C8_Witness ==
    \E p \in Procs :
        /\ Returned(p) /\ ops[p].call.name = "unregister" /\ WroteLast(p)
        /\ ops[p].seen.kind \in {"absent", "garbage"}
        /\ file = RegistryFile(<<>>)

\* C9: unregister(id) twice in sequence leaves the document that one call leaves.
C9_UnregisterIdempotent ==
    \A p, q \in Procs :
        (InSequence(p, q) /\ Returned(p) /\ Returned(q)
           /\ ops[p].call.name = "unregister" /\ ops[q].call.name = "unregister"
           /\ ops[p].call.id = ops[q].call.id) =>
            /\ ops[q].loaded = ops[p].saved
            /\ ops[q].saved = ops[p].saved
            /\ WroteLast(q) => file = RegistryFile(ops[p].saved.sessions)

\* C9's case: the first call removed an entry and left others.
C9_Witness ==
    \E p, q \in Procs :
        /\ InSequence(p, q) /\ Returned(p) /\ Returned(q)
        /\ ops[p].call.name = "unregister" /\ ops[q].call.name = "unregister"
        /\ ops[p].call.id = ops[q].call.id
        /\ HasKey(ops[p].loaded.sessions, ops[p].call.id)
        /\ Len(ops[p].saved.sessions) >= 1
        /\ WroteLast(q)

\* C10: cleanup on N entries of which the predicate is false for K removes
\* those K and keeps the others as they are, returns K, calls save once when
\* K > 0 and never when K = 0; outside its save no step changes the disk.
Stale(p) ==
    {i \in 1..Len(ops[p].loaded.sessions) :
        ~ops[p].call.alive[ops[p].loaded.sessions[i].val.cwd]}

C10_CleanupCounts ==
    \A p \in Procs :
        (Done(p) /\ ops[p].call.name = "cleanup") =>
            LET K == Cardinality(Stale(p))
                before == ops[p].loaded.sessions
                kept == [i \in 1..Len(before) |-> i \notin Stale(p)]
            IN  /\ ops[p].err \in {"none"} \cup SaveErrors
                /\ Returned(p) => ops[p].ret = K
                /\ ops[p].saves = (IF K > 0 THEN 1 ELSE 0)
                /\ ops[p].writes <= ops[p].saves
                /\ K = 0 => Returned(p) /\ ops[p].writes = 0 /\ ops[p].mkdirs = 0
                /\ K > 0 =>
                      /\ ops[p].saved.version = "num1"
                      /\ Len(ops[p].saved.sessions) = Len(before) - K
                      /\ \A i \in 1..Len(before) :
                            kept[i] <=>
                               \E j \in 1..Len(ops[p].saved.sessions) :
                                   ops[p].saved.sessions[j] = before[i]
                      /\ Returned(p) =>
                            /\ ops[p].writes = 1
                            /\ WroteLast(p) => file = RegistryFile(ops[p].saved.sessions)

\* C10, in full: the outcome of every cleanup, and the steps of cleanup outside
\* saveRegistry (load, predicate calls), which leave the disk as it is.
C10_CleanupRemovesStale ==
    /\ []C10_CleanupCounts
    /\ [][\A p \in Procs : StepOutsideSave(p, "cleanup") => DiskUnchanged]_vars

\* C10's case: three entries, two of them stale, cleaned without interleaving.
C10_Witness ==
    \E p \in Procs :
        /\ Returned(p) /\ ops[p].call.name = "cleanup" /\ ~ops[p].overlap
        /\ Len(ops[p].loaded.sessions) = 3 /\ Cardinality(Stale(p)) = 2
        /\ WroteLast(p) /\ Len(file.sessions) = 1

\* C10's other case: nothing stale among three entries, nothing written.
C10_WitnessNoneStale ==
    \E p \in Procs :
        /\ Returned(p) /\ ops[p].call.name = "cleanup" /\ ~ops[p].overlap
        /\ Len(ops[p].loaded.sessions) = 3 /\ Cardinality(Stale(p)) = 0
        /\ file = ops[p].seen

\* ---------------------------------------------------------- queries' claims
\* The last operation called, ended and returned, was named name.
Answered(p, name) ==
    Returned(p) /\ ops[p].call.name = name /\ ops[p].seq = nops

\* The entries of the registry the query of p answered from, in the file's order.
Held(p) == Values(ops[p].loaded.sessions)

\* What a query reads is what the file holds: a query that ran alone answers
\* from the entries of the document on disk, from none when there is none.
ReadsTheFile(p) ==
    ops[p].loaded.sessions = (IF file.kind = "json" THEN file.sessions ELSE <<>>)

\* xs lists exactly the entries of es that satisfy Wanted, each once.
ListsExactly(xs, es, Wanted(_)) ==
    /\ \A i \in 1..Len(xs) : Wanted(xs[i]) /\ \E j \in 1..Len(es) : es[j] = xs[i]
    /\ \A j \in 1..Len(es) :
          Wanted(es[j]) => Cardinality({i \in 1..Len(xs) : xs[i] = es[j]}) = 1

\* C11: listResumable returns exactly the entries whose status is running,
\* paused or interrupted, each once and none that is completed or failed;
\* listAll returns every entry, each once.
C11_ListsByStatus ==
    \A p \in Procs :
        /\ Answered(p, "listResumable") =>
              /\ ReadsTheFile(p)
              /\ ListsExactly(ops[p].found, Held(p),
                              LAMBDA e : e.status \in {"running", "paused", "interrupted"})
              /\ \A i \in 1..Len(ops[p].found) :
                    ops[p].found[i].status \notin {"completed", "failed"}
        /\ Answered(p, "listAll") =>
              /\ ReadsTheFile(p)
              /\ ListsExactly(ops[p].found, Held(p), LAMBDA e : TRUE)
              /\ Len(ops[p].found) = Len(Held(p))

\* C11's case: a registry with a paused, an interrupted and a failed session,
\* listed once by listResumable and then by listAll.
C11_Witness ==
    \E p, q \in Procs :
        /\ InSequence(p, q) /\ Returned(p) /\ ops[p].call.name = "listResumable"
        /\ Answered(q, "listAll")
        /\ Len(ops[q].found) = 3 /\ Len(ops[p].found) = 2
        /\ \E i \in 1..2 : ops[p].found[i].status = "interrupted"
        /\ \E i \in 1..2 : ops[p].found[i].status = "paused"
        /\ \E i \in 1..3 : ops[q].found[i].status = "failed"

\* x is id cut short: id is x followed by some rest.
IsPrefixOf(x, id) ==
    \E n \in 0..Len(Chars(id)) :
        Chars(x) \o SubSeq(Chars(id), n + 1, Len(Chars(id))) = Chars(id)

\* C12: findByPrefix(x) returns exactly the entries whose session ID starts
\* with x, upper and lower case being different: none, one or several; with
\* the empty string, every entry.
C12_PrefixMatches ==
    \A p \in Procs :
        Answered(p, "findByPrefix") =>
            LET x == ops[p].call.prefix
                found == ops[p].found
            IN  /\ ReadsTheFile(p)
                /\ ListsExactly(found, Held(p), LAMBDA e : IsPrefixOf(x, e.sessionId))
                /\ x = "" => found = Held(p)
                /\ x = "A" => found = <<>>

\* C12's case: three sessions a, ab and b were searched for "a" (two found)
\* and then for "A" (none found).
C12_Witness ==
    \E p, q \in Procs :
        /\ InSequence(p, q) /\ Returned(p) /\ ops[p].call.name = "findByPrefix"
        /\ Answered(q, "findByPrefix")
        /\ ops[p].call.prefix = "a" /\ Len(ops[p].found) = 2
        /\ ops[q].call.prefix = "A" /\ ops[q].found = <<>>
        /\ Len(Held(q)) = 3

C14_QueriesNeverWrite ==
    \A p \in Procs :
        (Done(p) /\ ops[p].call.name \in Queries) =>
            /\ ops[p].err = "none"
            /\ ops[p].saves = 0 /\ ops[p].writes = 0 /\ ops[p].mkdirs = 0
            /\ ops[p].saved = NoDoc
            /\ ops[p].seq = nops =>
                  /\ file = ops[p].seen
                  /\ dirExists = ops[p].hadDir
                  /\ nwrites = ops[p].sawWrites

\* C14's case: with no registry file and no directory, listAll and then a
\* second query answered from the empty registry and left both missing.
C14_Witness ==
    \E p, q \in Procs :
        /\ InSequence(p, q) /\ Returned(p) /\ ops[p].call.name = "listAll"
        /\ ops[p].seen.kind = "absent" /\ ~ops[p].hadDir
        /\ Returned(q) /\ ops[q].call.name \in Queries /\ ops[q].seq = nops
        /\ ops[q].seen.kind = "absent" /\ ops[q].found = <<>>
        /\ file.kind = "absent" /\ ~dirExists

\* C14's other case: a query on a file that is not JSON left it as it was.
C14_WitnessCorrupt ==
    \E p \in Procs :
        /\ Returned(p) /\ ops[p].call.name \in Queries /\ ops[p].seq = nops
        /\ ops[p].seen.kind = "garbage" /\ file.kind = "garbage"

\* ------------------------------------------------------------ failed saves
\* The document doc shows the change that call c, made at time t on the
\* document before, was to save.
Shows(c, t, before, doc) ==
    CASE c.name = "register" ->
            /\ HasKey(doc, c.id) /\ GetKey(doc, c.id) = c.entry
            /\ ~(HasKey(before, c.id) /\ GetKey(before, c.id) = c.entry)
      [] c.name = "updateStatus" ->
            /\ HasKey(before, c.id) /\ HasKey(doc, c.id)
            /\ GetKey(doc, c.id) # GetKey(before, c.id)
            /\ GetKey(doc, c.id) =
                  [GetKey(before, c.id) EXCEPT !.status = c.status, !.updatedAt = t]
      [] c.name = "unregister" -> HasKey(before, c.id) /\ ~HasKey(doc, c.id)
      [] c.name = "cleanup" ->
            \E i \in 1..Len(before) :
                ~c.alive[before[i].val.cwd] /\ ~HasKey(doc, before[i].key)
      [] OTHER -> FALSE

\* The save of p's operation failed: it was called and no write succeeded.
SaveFailed(p) == Done(p) /\ ops[p].saves = 1 /\ ops[p].wrotePos = 0

\* A failed save rejects the operation with the error of mkdir or writeFile,
\* and no operation calls writeFile or mkdir twice.
FailurePropagates ==
    \A p \in Procs :
        /\ SaveFailed(p) => ops[p].err \in SaveErrors /\ ops[p].call.name \in Mutations
        /\ ops[p].err \in SaveErrors => SaveFailed(p)
        /\ ops[p].saves <= 1 /\ ops[p].writes <= 1 /\ ops[p].mkdirs <= 1

\* C15: when the save of register, updateStatus, unregister or cleanup fails,
\* the operation rejects with that failure, nothing is written a second time,
\* and the load of the next operation does not show the change.
C15_FailedSaveLosesChange ==
    /\ FailurePropagates
    /\ \A p, q \in Procs :
          (InSequence(p, q) /\ SaveFailed(p) /\ ops[q].loadDone) =>
              ~Shows(ops[p].call, ops[p].stamp, ops[p].loaded.sessions,
                     ops[q].loaded.sessions)

\* C15 as the code has it: the operation rejects with the failure and writes
\* nothing a second time; the next load returns the document as the failed
\* operation loaded it when mkdir failed or the file could not be opened, and
\* the empty registry when writeFile failed after it had emptied the file.
\* It never shows an entry the operation registered or a status it set; an
\* entry it was to remove is gone with every other entry in the second case.
C15_FailedSaveKeepsOrEmpties ==
    /\ FailurePropagates
    /\ \A p, q \in Procs :
          (InSequence(p, q) /\ SaveFailed(p) /\ ops[q].loadDone) =>
              /\ ops[p].err = "EACCES" => ops[q].loaded = ops[p].loaded
              /\ ops[p].err = "ENOSPC" =>
                    /\ ops[q].seen = TruncatedFile
                    /\ ops[q].loaded = EmptyDocument
              /\ ops[p].call.name \in {"register", "updateStatus"} =>
                    ~Shows(ops[p].call, ops[p].stamp, ops[p].loaded.sessions,
                           ops[q].loaded.sessions)

\* C15's case: a register that was to replace one of three entries and whose
\* writeFile failed; the next operation loaded an empty registry.
C15_Witness ==
    \E p, q \in Procs :
        /\ InSequence(p, q) /\ SaveFailed(p) /\ ops[q].loadDone
        /\ ops[p].call.name = "register" /\ ops[p].err = "ENOSPC"
        /\ Len(ops[p].loaded.sessions) = 3
        /\ GetKey(ops[p].loaded.sessions, ops[p].call.id) # ops[p].call.entry
        /\ ops[q].loaded = EmptyDocument

\* C15's other case: mkdir failed under a register, and the next load found
\* no file as before.
C15_WitnessMkdir ==
    \E p, q \in Procs :
        /\ InSequence(p, q) /\ SaveFailed(p) /\ ops[q].loadDone
        /\ ops[p].call.name = "register" /\ ops[p].err = "EACCES"
        /\ ops[p].mkdirs = 1 /\ ops[p].writes = 0
        /\ ops[q].seen.kind = "absent"

\* --------------------------------------------------------------- round trip
\* The save of p's operation succeeded.
Saved(p) == Returned(p) /\ ops[p].saves = 1 /\ ops[p].wrotePos > 0

WellFormed(doc) ==
    /\ doc.version = "num1" /\ doc.sessKind = "object"
    /\ \A i \in 1..Len(doc.sessions) :
          /\ doc.sessions[i].key = doc.sessions[i].val.sessionId
          /\ doc.sessions[i].val.status \in SessionStatus
          /\ \A j \in 1..Len(doc.sessions) :
                doc.sessions[j].key = doc.sessions[i].key => j = i

C16_WitnessDirExists ==
    \E p, q \in Procs :
        /\ InSequence(p, q) /\ Saved(p) /\ ops[q].loadDone
        /\ ops[p].hadDir /\ ops[p].mkdirs = 0
        /\ Len(ops[q].loaded.sessions) = 3

\* ---------------------------------------------------------------- refinement
AllIdle == \A r \in Procs : pc[r] = "idle"

\* The registry the file persists: what loadRegistry would return.
Persisted == Catch(ReadParseValidate(file)).doc

SameButStatus(x, e) == [x EXCEPT !.status = e.status, !.updatedAt = e.updatedAt] = e

\* C18: callers interleaved in any way, on a registry that was absent at
\* first: every entry the file holds, at any time, has the sessionId of an
\* entry passed to a register call that has begun, and equals such an entry
\* in every field except status and updatedAt.
C18_Provenance ==
    (registered.known /\ file.kind = "json") =>
        \A i \in 1..Len(file.sessions) :
            \E e \in registered.entries :
                /\ file.sessions[i].key = e.sessionId
                /\ SameButStatus(file.sessions[i].val, e)

\* C18's case: the file holds an entry that no register call passed as it
\* is: an update, overlapping the register, has set its status.
C18_Witness ==
    /\ registered.known /\ file.kind = "json"
    /\ \E i \in 1..Len(file.sessions) :
          /\ file.sessions[i].val \notin registered.entries
          /\ file.sessions[i].val.status = "interrupted"
    /\ \E p \in Procs : ops[p].call.name = "register" /\ Returned(p) /\ ops[p].overlap

\* ------------------------------------------------------------- stale views
\* This step is the writeFile of p's operation, named name, and it succeeds.
Writes(p, name) ==
    /\ pc[p] = "save_write" /\ call[p].name = name
    /\ ops'[p].wrotePos = nwrites + 1

\* cleanup asked the predicate about the entry it loaded under id, and the
\* answer was that the session exists.
FoundAlive(p, id) ==
    /\ HasKey(ops[p].loaded.sessions, id)
    /\ call[p].alive[GetKey(ops[p].loaded.sessions, id).cwd]

\* cleanup asked the predicate about the entry under id, and the answer was
\* that the session is gone.
FoundDead(p, id) ==
    /\ HasKey(ops[p].loaded.sessions, id)
    /\ ~call[p].alive[GetKey(ops[p].loaded.sessions, id).cwd]

\* C19: under any interleaving, cleanup removes only entries of which the
\* predicate said that the session is gone: every entry on disk when cleanup
\* writes, unless cleanup found it dead, is on disk after the write; so are
\* the entries registered after cleanup's load, about which it never asked.
C19_CleanupRemovesOnlyDead ==
    [][\A p \in Procs :
          (Writes(p, "cleanup") /\ file.kind = "json") =>
              \A i \in 1..Len(file.sessions) :
                  ~FoundDead(p, file.sessions[i].key)
                     => HasKey(file'.sessions, file.sessions[i].key)]_vars

\* C19 as the code has it: cleanup's write replaces the file by the document
\* cleanup loaded less the entries it found dead.  An entry on disk when
\* cleanup writes is on disk afterwards exactly when cleanup had loaded an
\* entry under its ID and found it alive, and it is written as cleanup loaded
\* it; an entry registered after cleanup's load is removed by the write.
C19_CleanupWritesItsView ==
    [][\A p \in Procs :
          Writes(p, "cleanup") =>
              /\ file'.kind = "json"
              /\ \A id \in Ids :
                    /\ HasKey(file'.sessions, id) <=> FoundAlive(p, id)
                    /\ FoundAlive(p, id) =>
                          GetKey(file'.sessions, id) = GetKey(ops[p].loaded.sessions, id)
              /\ file.kind = "json" =>
                    \A i \in 1..Len(file.sessions) :
                        ~HasKey(ops[p].loaded.sessions, file.sessions[i].key)
                           => ~HasKey(file'.sessions, file.sessions[i].key)]_vars

\* C19's case: a register saved a new session, one the predicate holds
\* alive, between cleanup's load and cleanup's write, which removed it with
\* the entries cleanup found dead.
C19_Witness ==
    \E p, q \in Procs :
        /\ p # q /\ Raced(p, q) /\ ops[q].wrotePos < ops[p].wrotePos /\ WroteLast(p)
        /\ ops[p].call.name = "cleanup" /\ ops[q].call.name = "register"
        /\ ~HasKey(ops[p].loaded.sessions, ops[q].call.id)
        /\ ops[p].call.alive[ops[q].call.entry.cwd]
        /\ ~HasKey(file.sessions, ops[q].call.id)
        /\ Cardinality(Stale(p)) >= 1

\* An operation that has returned saved the registry without the entry under
\* id that it had loaded (unregister of id, or a cleanup that found it dead),
\* and the file holds no entry under id.
Deleted(id) ==
    /\ file.kind = "json" /\ ~HasKey(file.sessions, id)
    /\ \E q \in Procs :
          /\ Returned(q) /\ ops[q].wrotePos > 0
          /\ HasKey(ops[q].loaded.sessions, id)
          /\ \/ ops[q].call.name = "unregister" /\ ops[q].call.id = id
             \/ /\ ops[q].call.name = "cleanup"
                /\ ~ops[q].call.alive[GetKey(ops[q].loaded.sessions, id).cwd]

\* This step puts an entry under id into the file.
Reappears(id) == file'.kind = "json" /\ HasKey(file'.sessions, id)

\* C20: once an unregister of id, or a cleanup that removed id, has saved, id
\* stays out of the file until a register of id saves: no other write, and
\* so no updateStatus that loaded before the removal, brings it back.
C20_DeletedStaysDeleted ==
    [][\A id \in Ids :
          (Deleted(id) /\ Reappears(id)) =>
              \E p \in Procs : Writes(p, "register") /\ call[p].id = id]_vars

\* C20 as the code has it: after the removal has been saved, id comes back
\* with the write of a register of id, or with the write of any operation
\* that loaded the registry while it held id and writes that stale document:
\* the entry is then as that operation loaded it, or with the status an
\* updateStatus of id has set.
C20_DeletedUntilStaleSave ==
    [][\A id \in Ids :
          (Deleted(id) /\ Reappears(id)) =>
              \E p \in Procs :
                  /\ \E name \in Mutations : Writes(p, name)
                  /\ \/ call[p].name = "register" /\ call[p].id = id
                        /\ GetKey(file'.sessions, id) = call[p].entry
                     \/ /\ ~(call[p].name \in {"register", "updateStatus"} /\ call[p].id = id)
                        /\ HasKey(ops[p].loaded.sessions, id)
                        /\ ops[p].sawWrites < nwrites
                        /\ GetKey(file'.sessions, id) = GetKey(ops[p].loaded.sessions, id)
                     \/ /\ call[p].name = "updateStatus" /\ call[p].id = id
                        /\ HasKey(ops[p].loaded.sessions, id)
                        /\ ops[p].sawWrites < nwrites
                        /\ GetKey(file'.sessions, id) =
                              [GetKey(ops[p].loaded.sessions, id)
                                  EXCEPT !.status = call[p].status,
                                         !.updatedAt = ops[p].stamp]]_vars

\* C20's case: an updateStatus of id loaded the registry, an unregister of
\* id saved, and the update's write put the entry back with the new status.
C20_Witness ==
    \E p, q \in Procs :
        /\ p # q /\ Raced(p, q) /\ ops[q].wrotePos < ops[p].wrotePos /\ WroteLast(p)
        /\ ops[q].call.name = "unregister" /\ ops[p].call.name = "updateStatus"
        /\ ops[p].call.id = ops[q].call.id
        /\ HasKey(ops[q].loaded.sessions, ops[q].call.id)
        /\ HasKey(file.sessions, ops[p].call.id)
        /\ GetKey(file.sessions, ops[p].call.id).status = ops[p].call.status

====
